---- MODULE Spec2Model ----
(***************************************************************************)
(* KbEye frontend: the real-time (WebSocket) client of                     *)
(* frontend/src/services/websocket.service.js and the REST client of       *)
(* frontend/src/services/api.service.js, modelled as state machines.       *)
(* One action per public method, per timer callback and per transport      *)
(* task.  The browser runs handlers to completion, so every action is one  *)
(* whole handler run.  Spec is the connection lifecycle, SubscriberSpec    *)
(* adds the subscribers and the inbound frames, ApiSpec is the REST client.*)
(* AcceptingSpec is the lifecycle against a backend that accepts every     *)
(* connection, LogsSpec and DashboardSpec are the view layer, UrlSpec is   *)
(* the central configuration's URL helpers.  Listener callbacks return,    *)
(* throw, or unsubscribe themselves with off().                            *)
(***************************************************************************)
EXTENDS Integers, Sequences, FiniteSets, TLC

\* ------------------------------------------------------------------ bounds
\* Transports (WebSocket objects) one run may create.
MaxTransports == 4
\* maxReconnectAttempts (API_CONFIG.WEBSOCKET.MAX_RECONNECT_ATTEMPTS, set from
\* the environment, default 5), kept small here.
MaxReconnectAttempts == 1
\* connect() calls a caller may make in one run.
MaxConnectCalls == 2

\* Listener registrations held at once.
MaxListeners == 2
\* In the runs that have subscribers (SubscriberSpec): twice the transports
\* created plus the listener registrations held.
MaxLoad == 4

\* The logs viewer keeps the last 1000 entries (newLogs.slice(-1000)) and asks
\* the backend for logsPerPage = 100 lines; both kept small here.
MaxLogs == 3
LogsPerPage == 2
\* Log entries streamed to the viewer in one run.
MaxArrivals == 5
\* Calls of one kind (loadLogs, loadDashboardData) in flight at once.
MaxLoads == 2
\* Call frames the JavaScript engine's stack holds before it throws a
\* RangeError (thousands in a browser), kept small here.
MaxCallDepth == 16

Transports == 1..MaxTransports
\* Timer handles are abstract names; a fresh handle is any name not in use.
TimerIds == 1..2

\* ------------------------------------------------------------------- state
VARIABLES
    WEBSOCKET_ENABLED,      \* API_CONFIG.FEATURES.WEBSOCKET_ENABLED (fixed per run)
    ws,                     \* this.ws: 0 is null, else the current transport
    sockets,                \* the WebSocket objects created so far (platform state)
    promises,               \* per transport, the promise of the connect() that made it
    connectCalls,           \* connect() calls made by callers while the feature is enabled
    reconnectAttempts,      \* this.reconnectAttempts
    isManualDisconnect,     \* this.isManualDisconnect
    pingInterval,           \* this.pingInterval: 0 is null, else a setInterval handle
    intervals,              \* live setInterval timers (heartbeats)
    disconnectionTimer,     \* this.disconnectionTimer: 0 is null, else a setTimeout handle
    timeouts,               \* live grace-period setTimeout timers
    reconnectTimers,        \* number of pending reconnection setTimeout timers
    stableConnectionStatus, \* this.stableConnectionStatus
    listeners,              \* this.listeners: per known event name, the callbacks in registration order
    last,                   \* the handler that ran last: [op, t] and the inputs of send()
    emitted,                \* events emitted by the last handler run, in order
    sent,                   \* transport sends made by the last handler run, in order
    closeCalls,             \* ws.close(...) calls made by the last handler run
    ret,                    \* what the last public call returned ("throws": it threw)
    invoked,                \* listener calls made by the last handler run, in order
    trace,                  \* timer operations and emissions of the last handler run, in order
    uncaught,               \* an exception left the last transport / timer handler
    outcome,                \* final state of the promise of the transport the last step closed
    manualWindow,           \* history: disconnect() was called and no explicit connect() since
    blip,                   \* history: state of the current close-then-open episode
    discEmits,              \* history: stableStatusChange('disconnected') events since the last open
    autoAttempts,           \* history: automatic connect() calls since the last open / explicit connect()
    closeCalled,            \* history: transports on which close() has been called
    outage,                 \* history: whose close started the live grace timer of the current outage
    stableEmits,            \* history: the last stableStatusChange payload and whether the payloads alternated so far
    loadingStates,          \* ApiService: size of this.loadingStates
    request,                \* ApiService: the get / post / delete call in flight and its position
    fetches,                \* ApiService: the outcomes of the fetch attempts of that call, in order
    result,                 \* ApiService: the promise the call returned
    logs,                   \* LogsViewer: the logs state (the buffer)
    logLoads,               \* LogsViewer: loadLogs() calls awaiting their response
    arrivals,               \* LogsViewer: log entries streamed so far
    services,               \* App: the services state (service ids)
    servicesStatus,         \* App: the servicesStatus state
    backend,                \* the backend: its services and their health
    dashLoads,              \* App: loadDashboardData() calls awaiting their responses
    creating,               \* App: the service handleAddService is creating, or "none"
    added,                  \* history: services handleAddService added successfully
    viewLast,               \* the view-layer handler that ran last and its input
    centralConfig,          \* API_CONFIG is the module that imports ./config.js (fixed per run)
    urlCall,                \* CONFIG: the getApiUrl / buildUrl call made last and its arguments
    callStack,              \* CONFIG: the frames of that call, innermost last, and the value just returned
    urlResult               \* CONFIG: what the call returned or threw

vars == <<WEBSOCKET_ENABLED, ws, sockets, promises, connectCalls, reconnectAttempts,
          isManualDisconnect, pingInterval, intervals, disconnectionTimer,
          timeouts, reconnectTimers, stableConnectionStatus, listeners, last,
          emitted, sent, closeCalls, ret, invoked, trace, uncaught, outcome, manualWindow, blip, discEmits, autoAttempts,
          closeCalled, outage, stableEmits, loadingStates, request, fetches, result,
          logs, logLoads, arrivals, services, servicesStatus, backend,
          dashLoads, creating, added, viewLast,
          centralConfig, urlCall, callStack, urlResult>>

\* the variables of the real-time client and of the REST client
clientVars ==
    <<WEBSOCKET_ENABLED, ws, sockets, promises, connectCalls, reconnectAttempts,
      isManualDisconnect, pingInterval, intervals, disconnectionTimer,
      timeouts, reconnectTimers, stableConnectionStatus, listeners, last,
      emitted, sent, closeCalls, ret, invoked, trace, uncaught, outcome,
      manualWindow, blip, discEmits, autoAttempts, closeCalled, outage,
      stableEmits>>

apiVars == <<loadingStates, request, fetches, result>>

\* the variables of the view layer (LogsViewer, App)
logsVars == <<logs, logLoads, arrivals>>

dashVars == <<services, servicesStatus, backend, dashLoads, creating, added>>

viewVars == <<logsVars, dashVars, viewLast>>

\* the variables of the central configuration's URL helpers
urlVars == <<centralConfig, urlCall, callStack, urlResult>>

\* A CLOSED WebSocket fires no further event, so nothing can run its handlers
\* or the resolve / reject they captured any more: what became of the promise
\* is final.  The step that closes a transport reports that final outcome
\* (variable outcome) and drops the records of the transport.
ClosedSocket == [readyState |-> "CLOSED", established |-> FALSE]

NoPromise == [state |-> "none", origin |-> "none"]

NoOutcome == [origin |-> "none", state |-> "none", established |-> FALSE]

\* The client's fields and the outputs of the running handler, as one record
\* that the handler's statements transform in sequence.
Cur ==
    [ws |-> ws, sockets |-> sockets, promises |-> promises,
     reconnectAttempts |-> reconnectAttempts,
     isManualDisconnect |-> isManualDisconnect,
     pingInterval |-> pingInterval, intervals |-> intervals,
     disconnectionTimer |-> disconnectionTimer, timeouts |-> timeouts,
     reconnectTimers |-> reconnectTimers,
     stableConnectionStatus |-> stableConnectionStatus,
     listeners |-> listeners,
     emitted |-> <<>>, sent |-> <<>>, closeCalls |-> <<>>, ret |-> "none",
     invoked |-> <<>>, trace |-> <<>>, uncaught |-> FALSE, outcome |-> NoOutcome]

Commit(s) ==
    /\ ws' = s.ws
    /\ sockets' = s.sockets
    /\ promises' = s.promises
    /\ reconnectAttempts' = s.reconnectAttempts
    /\ isManualDisconnect' = s.isManualDisconnect
    /\ pingInterval' = s.pingInterval
    /\ intervals' = s.intervals
    /\ disconnectionTimer' = s.disconnectionTimer
    /\ timeouts' = s.timeouts
    /\ reconnectTimers' = s.reconnectTimers
    /\ stableConnectionStatus' = s.stableConnectionStatus
    /\ listeners' = s.listeners
    /\ invoked' = s.invoked
    /\ trace' = s.trace
    /\ uncaught' = s.uncaught
    /\ emitted' = s.emitted
    /\ sent' = s.sent
    /\ closeCalls' = s.closeCalls
    /\ ret' = s.ret
    /\ outcome' = s.outcome

\* ------------------------------------------------------- platform helpers
NumCreated(s) == Cardinality({t \in Transports : s.sockets[t].readyState # "NONE"})

\* setTimeout / setInterval return a handle that names no live timer (the
\* first free name: handles are compared only for identity).
NewTimerId(live) ==
    CHOOSE i \in TimerIds : i \notin live /\ \A j \in 1..(i - 1) : j \in live

\* WebSocket.close(code): a connecting or open socket starts closing, a
\* closing or closed one ignores the call.
SocketClose(s, t, code) ==
    LET s1 == [s EXCEPT !.closeCalls = Append(@, [t |-> t, code |-> code])]
    IN IF s.sockets[t].readyState \in {"CONNECTING", "OPEN"}
       THEN [s1 EXCEPT !.sockets[t].readyState = "CLOSING"]
       ELSE s1

\* The task that closes transport t has run its handlers: t is CLOSED for
\* good.
Closed(s, t) ==
    [s EXCEPT !.outcome = [origin |-> s.promises[t].origin,
                           state |-> s.promises[t].state,
                           established |-> s.sockets[t].established],
              !.sockets[t] = ClosedSocket,
              !.promises[t] = NoPromise]

\* Promise resolve / reject: only a pending promise settles.
ResolvePromise(s, t) ==
    IF s.promises[t].state = "pending"
    THEN [s EXCEPT !.promises[t].state = "resolved"] ELSE s

RejectPromise(s, t) ==
    IF s.promises[t].state = "pending"
    THEN [s EXCEPT !.promises[t].state = "rejected"] ELSE s

\* ---------------------------------------------------------- client methods
\* The own properties of this.listeners.
KnownEvents ==
    {"open", "close", "error", "message", "healthCheck", "stableStatusChange"}

\* this.listeners is a plain object: a name such as 'toString' or
\* 'constructor' is found on Object.prototype, where it is a function.
InheritedNames == {"toString"}

\* Callbacks subscribers register; h1 throws when it is called, h3 calls
\* off(event, h3) for the event it listens to (a one-shot listener).
Callbacks == {"h1", "h2", "h3"}

Throws(callback) == callback = "h1"

\* The (event name, callback) pairs subscribers pass to on() and off():
\* known names, the log viewers' 'logUpdate', and a name inherited from
\* Object.prototype.
Registrations ==
    { <<"message", "h1">>, <<"message", "h2">>, <<"message", "h3">>,
      <<"error", "h1">>, <<"error", "h2">>,
      <<"healthCheck", "h2">>,
      <<"logUpdate", "h2">>, <<"toString", "h2">> }

\* this.listeners[event]
ListenerSlot(event) ==
    IF event \in KnownEvents THEN "array"
    ELSE IF event \in InheritedNames THEN "function"
    ELSE "undefined"

NumListeners(table) ==
    Len(table["open"]) + Len(table["close"]) + Len(table["error"])
    + Len(table["message"]) + Len(table["healthCheck"])
    + Len(table["stableStatusChange"])

\* The calls emitEvent makes for one event.
Calls(callbacks, event, data) ==
    [i \in 1..Len(callbacks) |->
        [event |-> event, callback |-> callbacks[i], data |-> data]]

\* Array.prototype.indexOf: 0 here where JavaScript gives -1
IndexOf(seq, x) ==
    IF \E i \in 1..Len(seq) : seq[i] = x
    THEN CHOOSE i \in 1..Len(seq) : seq[i] = x /\ \A j \in 1..(i - 1) : seq[j] # x
    ELSE 0

\* Array.prototype.splice(index, 1)
Splice1(seq, i) == SubSeq(seq, 1, i - 1) \o SubSeq(seq, i + 1, Len(seq))

\* off(event, callback)
OffCall(s, event, callback) ==
    IF ListenerSlot(event) = "array"
    THEN LET index == IndexOf(s.listeners[event], callback)
         IN IF index > 0
            THEN [s EXCEPT !.listeners[event] = Splice1(@, index)]
            ELSE s
    ELSE IF ListenerSlot(event) = "function"
    THEN [s EXCEPT !.ret = "throws"]    \* .indexOf is not a function
    ELSE s

Unsubscribes(callback) == callback = "h3"

\* callback(data): what the call does to the client
RunCallback(s, event, callback) ==
    IF Unsubscribes(callback) THEN OffCall(s, event, callback) ELSE s

\* this.listeners[event].forEach(...): the length is read once, before the
\* first call; index k is visited if the array still has an element there
\* (off() splices the array that is being walked).  catches: the callback
\* runs inside try/catch.
RECURSIVE ForEach(_, _, _, _, _, _)
ForEach(s, event, data, k, len, catches) ==
    IF k > len THEN s
    ELSE IF k > Len(s.listeners[event])
    THEN ForEach(s, event, data, k + 1, len, catches)
    ELSE LET callback == s.listeners[event][k]
             s1 == [s EXCEPT !.invoked =
                       Append(@, [event |-> event, callback |-> callback,
                                  data |-> data])]
         IN IF Throws(callback) /\ ~catches
            THEN [s1 EXCEPT !.uncaught = TRUE]
            ELSE ForEach(RunCallback(s1, event, callback), event, data,
                         k + 1, len, catches)

\* Mutant of EmitEvent: no try/catch around the callback, so the first
\* callback that throws ends the forEach and the exception leaves the handler.
EmitEvent_NoCatch(s, event, data) ==
    LET s1 == [s EXCEPT !.emitted = Append(@, [event |-> event, data |-> data]),
                        !.trace = Append(@, event)]
    IN IF ListenerSlot(event) = "array"
       THEN ForEach(s1, event, data, 1, Len(s.listeners[event]), FALSE)
       ELSE s1

\* emitEvent(event, data): the listeners of the name are called, in
\* registration order; what a listener throws is caught and logged.
EmitEvent(s, event, data) ==
    LET s1 == [s EXCEPT !.emitted = Append(@, [event |-> event, data |-> data]),
                        !.trace = Append(@, event)]
    IN IF ListenerSlot(event) = "array"
       THEN ForEach(s1, event, data, 1, Len(s.listeners[event]), TRUE)
       ELSE s1

\* on(event, callback)
OnCall(s, event, callback) ==
    IF ListenerSlot(event) = "array"
    THEN [s EXCEPT !.listeners[event] = Append(@, callback)]
    ELSE IF ListenerSlot(event) = "function"
    THEN [s EXCEPT !.ret = "throws"]    \* .push is not a function
    ELSE s

\* Inbound frames: a health update, another tagged object, the JSON texts
\* null and 42, and plain text (an echo response).
HealthFrame == "{\"type\":\"health_check\",\"data\":\"up\"}"

Frames ==
    {HealthFrame, "{\"type\":\"log\",\"data\":\"line\"}", "null", "42", "Echo: ping"}

\* JSON.parse(text) on the frames above: ok is FALSE where it throws.
JsonParse(text) ==
    IF text = HealthFrame
    THEN [ok |-> TRUE, isNull |-> FALSE, type |-> "health_check", data |-> "up"]
    ELSE IF text = "{\"type\":\"log\",\"data\":\"line\"}"
    THEN [ok |-> TRUE, isNull |-> FALSE, type |-> "log", data |-> "line"]
    ELSE IF text = "null"
    THEN [ok |-> TRUE, isNull |-> TRUE, type |-> "", data |-> ""]
    ELSE IF text = "42"
    THEN [ok |-> TRUE, isNull |-> FALSE, type |-> "", data |-> ""]
    ELSE [ok |-> FALSE, isNull |-> FALSE, type |-> "", data |-> ""]

\* the plain-text wrapper { type: 'echo', data: text }
Echo(text) == "echo:" \o text

\* Messages: a string, a serialisable object, or a value JSON.stringify
\* throws on (a cyclic structure, a BigInt).
Messages ==
    { [kind |-> "string", text |-> "hello"],
      [kind |-> "object", text |-> "hello"],
      [kind |-> "cyclic", text |-> ""] }

StringifyThrows(message) == message.kind = "cyclic"

\* typeof message === 'string' ? message : JSON.stringify(message)
MessageStr(message) ==
    IF message.kind = "string" THEN message.text
    ELSE "{\"v\":\"" \o message.text \o "\"}"

\* Mutant of Send: no try/catch around the serialisation and the transport
\* send, so their exception reaches the caller.
Send_NoCatch(s, message, sendThrows) ==
    IF s.ws # 0 /\ s.sockets[s.ws].readyState = "OPEN"
    THEN IF StringifyThrows(message) \/ sendThrows
         THEN [s EXCEPT !.ret = "throws"]
         ELSE [s EXCEPT !.sent = Append(@, [t |-> s.ws, data |-> MessageStr(message)]),
                        !.ret = "true"]
    ELSE [s EXCEPT !.ret = "false"]

\* send(message); sendThrows: the platform's ws.send throws.
Send(s, message, sendThrows) ==
    IF s.ws # 0 /\ s.sockets[s.ws].readyState = "OPEN"
    THEN IF StringifyThrows(message) \/ sendThrows
         THEN [s EXCEPT !.ret = "false"]
         ELSE [s EXCEPT !.sent = Append(@, [t |-> s.ws, data |-> MessageStr(message)]),
                        !.ret = "true"]
    ELSE [s EXCEPT !.ret = "false"]

\* The trace names the timers set and the pending timers cancelled.
StopHeartbeat(s) ==
    IF s.pingInterval # 0
    THEN [s EXCEPT !.intervals = @ \ {s.pingInterval}, !.pingInterval = 0,
                   !.trace = IF s.pingInterval \in s.intervals
                             THEN Append(@, "stopHeartbeat") ELSE @]
    ELSE s

StartHeartbeat(s) ==
    LET s1 == StopHeartbeat(s)
        h == NewTimerId(s1.intervals)
    IN [s1 EXCEPT !.pingInterval = h, !.intervals = @ \cup {h},
                  !.trace = Append(@, "startHeartbeat")]

ClearDisconnectionTimer(s) ==
    IF s.disconnectionTimer # 0
    THEN [s EXCEPT !.timeouts = @ \ {s.disconnectionTimer}, !.disconnectionTimer = 0,
                   !.trace = IF s.disconnectionTimer \in s.timeouts
                             THEN Append(@, "clearDisconnectionTimer") ELSE @]
    ELSE s

StartDisconnectionTimer(s) ==
    LET s1 == ClearDisconnectionTimer(s)
        h == NewTimerId(s1.timeouts)
    IN [s1 EXCEPT !.disconnectionTimer = h, !.timeouts = @ \cup {h},
                  !.trace = Append(@, "startDisconnectionTimer")]

\* Mutant of UpdateStableStatus: emits without comparing with the current
\* status.
UpdateStableStatus_AlwaysEmits(s, status) ==
    EmitEvent([s EXCEPT !.stableConnectionStatus = status],
              "stableStatusChange", status)

\* Mutant of UpdateStableStatus: emits the new status without storing it.
UpdateStableStatus_NoStore(s, status) ==
    IF s.stableConnectionStatus # status
    THEN EmitEvent(s, "stableStatusChange", status)
    ELSE s

UpdateStableStatus(s, status) ==
    IF s.stableConnectionStatus # status
    THEN EmitEvent([s EXCEPT !.stableConnectionStatus = status],
                   "stableStatusChange", status)
    ELSE s

\* getStableConnectionStatus()
GetStableConnectionStatus == stableConnectionStatus

ScheduleReconnection(s) ==
    [s EXCEPT !.reconnectAttempts = @ + 1, !.reconnectTimers = @ + 1,
              !.trace = Append(@, "scheduleReconnection")]

\* Mutant of ConnectCall: the transport the client holds is not closed.
ConnectCall_NoClose(s, origin) ==
    IF ~WEBSOCKET_ENABLED
    THEN [s EXCEPT !.ret = "resolved"]
    ELSE LET id == NumCreated(s) + 1
         IN [s EXCEPT !.isManualDisconnect = FALSE,
                      !.ws = id,
                      !.sockets[id] = [readyState |-> "CONNECTING", established |-> FALSE],
                      !.promises[id] = [state |-> "pending", origin |-> origin],
                      !.ret = "pending"]

\* Mutant of ConnectCall: the feature flag is tested after isManualDisconnect
\* was reset.
ConnectCall_ResetsManualFirst(s, origin) ==
    LET s0 == [s EXCEPT !.isManualDisconnect = FALSE]
    IN IF ~WEBSOCKET_ENABLED
       THEN [s0 EXCEPT !.ret = "resolved"]
       ELSE LET s1 == IF s0.ws # 0 THEN SocketClose(s0, s0.ws, "none") ELSE s0
                id == NumCreated(s0) + 1
            IN [s1 EXCEPT !.ws = id,
                          !.sockets[id] = [readyState |-> "CONNECTING", established |-> FALSE],
                          !.promises[id] = [state |-> "pending", origin |-> origin],
                          !.ret = "pending"]

\* connect(): origin is "explicit" for a caller's call, "auto" for the call
\* made by the reconnection timer.
ConnectCall(s, origin) ==
    IF ~WEBSOCKET_ENABLED
    THEN [s EXCEPT !.ret = "resolved"]
    ELSE LET s1 == IF s.ws # 0 THEN SocketClose(s, s.ws, "none") ELSE s
             id == NumCreated(s) + 1
         IN [s1 EXCEPT !.isManualDisconnect = FALSE,
                       !.ws = id,
                       !.sockets[id] = [readyState |-> "CONNECTING", established |-> FALSE],
                       !.promises[id] = [state |-> "pending", origin |-> origin],
                       !.ret = "pending"]

\* Mutant of OnOpen: 'open' is emitted before the stable status is updated.
OnOpen_EmitsOpenFirst(s, t) ==
    LET s1 == [s EXCEPT !.reconnectAttempts = 0]
        s2 == ClearDisconnectionTimer(s1)
        s3 == EmitEvent(s2, "open", ToString(t))
        s4 == UpdateStableStatus(s3, "connected")
        s5 == StartHeartbeat(s4)
        s6 == Send(s5, [kind |-> "string", text |-> "Frontend connected"], FALSE)
    IN ResolvePromise([s6 EXCEPT !.ret = "none"], t)

\* Mutant of OnOpen: the grace timer is not cleared.
OnOpen_KeepsGraceTimer(s, t) ==
    LET s1 == [s EXCEPT !.reconnectAttempts = 0]
        s3 == UpdateStableStatus(s1, "connected")
        s4 == EmitEvent(s3, "open", ToString(t))
        s5 == StartHeartbeat(s4)
        s6 == Send(s5, [kind |-> "string", text |-> "Frontend connected"], FALSE)
    IN ResolvePromise([s6 EXCEPT !.ret = "none"], t)

\* ws.onopen of transport t
OnOpen(s, t) ==
    LET s1 == [s EXCEPT !.reconnectAttempts = 0]
        s2 == ClearDisconnectionTimer(s1)
        s3 == UpdateStableStatus(s2, "connected")
        s4 == EmitEvent(s3, "open", ToString(t))
        s5 == StartHeartbeat(s4)
        s6 == Send(s5, [kind |-> "string", text |-> "Frontend connected"], FALSE)
    IN ResolvePromise([s6 EXCEPT !.ret = "none"], t)

\* ws.onmessage: the catch block runs when JSON.parse throws and also when
\* reading data.type throws (data is null).
OnMessage(s, text) ==
    LET data == JsonParse(text)
    IN IF ~data.ok
       THEN EmitEvent(s, "message", Echo(text))
       ELSE LET s1 == EmitEvent(s, "message", text)
            IN IF data.isNull
               THEN EmitEvent(s1, "message", Echo(text))
               ELSE IF data.type = "health_check"
               THEN EmitEvent(s1, "healthCheck", data.data)
               ELSE s1

\* ws.onclose of transport t
OnClose(s, t) ==
    LET s1 == StopHeartbeat(s)
        s2 == StartDisconnectionTimer(s1)
        s3 == EmitEvent(s2, "close", ToString(t))
    IN IF ~s3.isManualDisconnect /\ s3.reconnectAttempts < MaxReconnectAttempts
       THEN ScheduleReconnection(s3)
       ELSE s3

\* Mutant of OnError: reject is shared by all connect() calls, so an error
\* rejects every pending promise.
OnError_RejectsEveryPending(s, t) ==
    LET s1 == EmitEvent(s, "error", ToString(t))
    IN IF s1.reconnectAttempts = 0
       THEN [s1 EXCEPT !.promises =
                [u \in Transports |->
                    IF s1.promises[u].state = "pending"
                    THEN [s1.promises[u] EXCEPT !.state = "rejected"]
                    ELSE s1.promises[u]]]
       ELSE s1

\* ws.onerror of transport t
OnError(s, t) ==
    LET s1 == EmitEvent(s, "error", ToString(t))
    IN IF s1.reconnectAttempts = 0 THEN RejectPromise(s1, t) ELSE s1

\* disconnect()
DisconnectCall(s) ==
    LET s1 == [s EXCEPT !.isManualDisconnect = TRUE]
        s2 == StopHeartbeat(s1)
        s3 == ClearDisconnectionTimer(s2)
        s4 == UpdateStableStatus(s3, "disconnected")
    IN IF s4.ws # 0
       THEN [SocketClose(s4, s4.ws, "1000") EXCEPT !.ws = 0]
       ELSE s4

\* Mutant of ReconnectCallback: isManualDisconnect is not consulted.
ReconnectCallback_IgnoresManual(s) ==
    IF s.reconnectAttempts <= MaxReconnectAttempts
    THEN ConnectCall(s, "auto")
    ELSE s

\* the callback scheduleReconnection hands to setTimeout
ReconnectCallback(s) ==
    IF ~s.isManualDisconnect /\ s.reconnectAttempts <= MaxReconnectAttempts
    THEN ConnectCall(s, "auto")
    ELSE s

\* the callback startHeartbeat hands to setInterval
HeartbeatCallback(s) ==
    IF s.ws # 0 /\ s.sockets[s.ws].readyState = "OPEN"
    THEN [Send(s, [kind |-> "string", text |-> "ping"], FALSE) EXCEPT !.ret = "none"]
    ELSE s

\* the callback startDisconnectionTimer hands to setTimeout
GraceCallback(s) == UpdateStableStatus(s, "disconnected")

\* ------------------------------------------- central configuration (URLs)
\* Strings are sequences of tokens; Null is the value null.
Null == <<"null">>

HealthEndpoint == <<"/", "health">>

NoParams == <<>>

\* `${this.API.BASE_URL}${this.API.BASE_PATH}`
ApiBase == <<"http://localhost:8000", "/api/v1">>

\* endpoint.startsWith('/') ? endpoint : `/${endpoint}`
CleanEndpoint(endpoint) ==
    IF Len(endpoint) > 0 /\ endpoint[1] = "/" THEN endpoint
    ELSE <<"/">> \o endpoint

\* String.prototype.includes
Includes(str, sub) ==
    \E i \in 1..(Len(str) - Len(sub) + 1) : SubSeq(str, i, i + Len(sub) - 1) = sub

\* new URLSearchParams(params).toString(): the pairs joined by '&'
RECURSIVE QueryString(_)
QueryString(params) ==
    IF params = <<>> THEN <<>>
    ELSE IF Len(params) = 1 THEN <<params[1]>>
    ELSE <<params[1], "&">> \o QueryString(Tail(params))

\* url += (url.includes('?') ? '&' : '?') + queryParams, if there are any
WithQuery(url, params) ==
    IF QueryString(params) = <<>> THEN url
    ELSE url \o <<IF Includes(url, <<"?">>) THEN "&" ELSE "?">> \o QueryString(params)

\* A call in progress: its frames (innermost last), the value the frame that
\* returned last handed to its caller, and the result of the outermost call.
NoUrlCall == [fn |-> "none", endpoint |-> <<>>, params |-> <<>>]

NoUrlResult == [state |-> "none", value |-> <<>>]

Frame(fn, endpoint, params) ==
    [fn |-> fn, endpoint |-> endpoint, params |-> params, pc |-> "entry"]

StartCall(fn, endpoint, params) ==
    [frames |-> <<Frame(fn, endpoint, params)>>, value |-> <<>>,
     result |-> [state |-> "running", value |-> <<>>]]

\* nothing on the way catches: the exception ends the outermost call
Throw(m, error) ==
    [frames |-> <<>>, value |-> <<>>,
     result |-> [state |-> "thrown", value |-> <<error>>]]

\* the running frame calls; the engine throws when its stack is full
Push(m, frame) ==
    IF Len(m.frames) >= MaxCallDepth THEN Throw(m, "RangeError")
    ELSE [m EXCEPT !.frames = Append([@ EXCEPT ![Len(@)].pc = "called"], frame)]

Return(m, value) ==
    LET rest == SubSeq(m.frames, 1, Len(m.frames) - 1)
    IN [frames |-> rest, value |-> value,
        result |-> IF rest = <<>> THEN [state |-> "returned", value |-> value]
                   ELSE m.result]

\* CONFIG.getApiUrl(endpoint): cleans the endpoint (a TypeError for null),
\* calls this.buildUrl('/health') for its log line, then returns the URL.
GetApiUrl(m, frame) ==
    IF frame.pc = "entry"
    THEN IF frame.endpoint = Null THEN Throw(m, "TypeError")
         ELSE Push(m, Frame("buildUrl", HealthEndpoint, NoParams))
    ELSE Return(m, ApiBase \o CleanEndpoint(frame.endpoint))

\* CONFIG.buildUrl(endpoint, params): calls this.getApiUrl(endpoint), then
\* appends the query string to what it returned.
BuildUrl(m, frame) ==
    IF frame.pc = "entry"
    THEN Push(m, Frame("getApiUrl", frame.endpoint, NoParams))
    ELSE Return(m, WithQuery(m.value, frame.params))

\* one step of the running (innermost) frame
UrlStepOf(m) ==
    LET frame == m.frames[Len(m.frames)]
    IN IF frame.fn = "getApiUrl" THEN GetApiUrl(m, frame) ELSE BuildUrl(m, frame)

\* the call run to its end
RECURSIVE RunUrl(_)
RunUrl(m) == IF m.result.state # "running" THEN m.result ELSE RunUrl(UrlStepOf(m))

\* Endpoints and parameters callers pass (CONFIG.ENDPOINTS; { lines: 50 }).
UrlEndpoints ==
    {<<"/", "services", "/">>, <<"/", "monitoring", "/", "status">>, HealthEndpoint}

UrlParams == {NoParams, <<"lines=50">>}

UrlCall ==
    \E fn \in {"getApiUrl", "buildUrl"} : \E endpoint \in UrlEndpoints :
    \E params \in (IF fn = "buildUrl" THEN UrlParams ELSE {NoParams}) :
        /\ urlResult.state # "running"
        /\ urlCall' = [fn |-> fn, endpoint |-> endpoint, params |-> params]
        /\ LET m == StartCall(fn, endpoint, params)
           IN /\ callStack' = [frames |-> m.frames, value |-> m.value]
              /\ urlResult' = m.result
        /\ UNCHANGED <<centralConfig, clientVars, apiVars, viewVars>>

UrlStep ==
    /\ urlResult.state = "running"
    /\ LET m == UrlStepOf([frames |-> callStack.frames, value |-> callStack.value,
                           result |-> urlResult])
       IN /\ callStack' = [frames |-> m.frames, value |-> m.value]
          /\ urlResult' = m.result
    /\ UNCHANGED <<centralConfig, urlCall, clientVars, apiVars, viewVars>>

UrlNext ==
    \/ UrlCall
    \/ UrlStep

\* ------------------------------------------------------- REST client
\* this.retryAttempts (API_CONFIG.HTTP.RETRY_ATTEMPTS)
RetryAttempts == 3

\* HTTP statuses a response may carry besides 2xx, and their status texts.
ErrorStatuses == {400, 401, 404, 500}

StatusText(status) ==
    IF status = 400 THEN "Bad Request"
    ELSE IF status = 401 THEN "Unauthorized"
    ELSE IF status = 404 THEN "Not Found"
    ELSE "Internal Server Error"

\* What one fetch attempt comes to: a 2xx response, the Error thrown for a
\* response that is not ok, a network failure (fetch rejects with a
\* TypeError), or the AbortError of the timeout.
OkResponse == [ok |-> TRUE, status |-> 200, name |-> "", message |-> ""]

HttpError(status) ==
    [ok |-> FALSE, status |-> status, name |-> "Error",
     message |-> "HTTP " \o ToString(status) \o ": " \o StatusText(status)]

NetworkError ==
    [ok |-> FALSE, status |-> 0, name |-> "TypeError", message |-> "Failed to fetch"]

TimeoutError ==
    [ok |-> FALSE, status |-> 0, name |-> "AbortError",
     message |-> "The operation was aborted."]

ParseError ==
    [ok |-> FALSE, status |-> 200, name |-> "SyntaxError",
     message |-> "Unexpected token < in JSON"]

FetchOutcomes ==
    {OkResponse, NetworkError, TimeoutError} \cup {HttpError(st) : st \in ErrorStatuses}

\* shouldRetry(error)
ShouldRetry(error) ==
    IF error.name = "AbortError" THEN FALSE
    ELSE IF Includes(error.message, "404") THEN FALSE
    ELSE IF Includes(error.message, "400") THEN FALSE
    ELSE TRUE

\* the error message handleError(error) puts in the result
ErrorMessage(error) ==
    IF error.name = "AbortError" THEN "Request timeout"
    ELSE IF Includes(error.message, "Failed to fetch") THEN "Network connection failed"
    ELSE IF error.message # "" THEN error.message
    ELSE "An unknown error occurred"

NoResult == [state |-> "none", success |-> FALSE, error |-> ""]

\* handleError(error), returned by request(): the promise fulfils
HandleError(error) ==
    [state |-> "fulfilled", success |-> FALSE, error |-> ErrorMessage(error)]

\* Arguments of get / post / delete: the endpoint is a path or null, the
\* body of a post is absent, a serialisable object, or a cyclic one.
Methods == {"get", "post", "delete"}

Endpoints == {<<"/", "services", "/">>, Null}

Bodies == {"none", "object", "cyclic"}

\* API_CONFIG.buildUrl(endpoint): the module that imports ./config.js
\* delegates to CONFIG.buildUrl, the other one concatenates and never throws
BuildUrlThrows(endpoint) ==
    /\ centralConfig
    /\ RunUrl(StartCall("buildUrl", endpoint, NoParams)).state = "thrown"

\* post builds its options with JSON.stringify(data) when data is given
StringifyBodyThrows(method, body) == method = "post" /\ body = "cyclic"

\* get / post / delete up to the first await of request(): they are async
\* functions, so what is thrown before request()'s try block rejects the
\* promise they return.
ApiCall ==
    \E method \in Methods : \E endpoint \in Endpoints :
    \E body \in (IF method = "post" THEN Bodies ELSE {"none"}) :
        /\ request.phase \in {"idle", "done"}
        /\ fetches' = <<>>
        /\ IF BuildUrlThrows(endpoint) \/ StringifyBodyThrows(method, body)
           THEN /\ request' = [phase |-> "done", method |-> method, attempt |-> 0]
                /\ result' = [state |-> "rejected", success |-> FALSE, error |-> ""]
                /\ UNCHANGED loadingStates
           ELSE /\ request' = [phase |-> "fetching", method |-> method, attempt |-> 1]
                /\ result' = [state |-> "pending", success |-> FALSE, error |-> ""]
                /\ loadingStates' = loadingStates + 1
        /\ UNCHANGED clientVars
        /\ UNCHANGED <<viewVars, urlVars>>

\* makeRequestWithRetry: the fetch of the current attempt settles (or the
\* timeout aborts it); a failure is retried after the delay or thrown to
\* request(), whose catch block returns handleError(error).
FetchSettles ==
    \E fetched \in FetchOutcomes :
        /\ request.phase = "fetching"
        /\ fetches' = Append(fetches, fetched)
        /\ IF fetched.ok
           THEN /\ request' = [request EXCEPT !.phase = "parsing"]
                /\ UNCHANGED <<result, loadingStates>>
           ELSE IF request.attempt < RetryAttempts /\ ShouldRetry(fetched)
           THEN /\ request' = [request EXCEPT !.phase = "delaying"]
                /\ UNCHANGED <<result, loadingStates>>
           ELSE /\ request' = [request EXCEPT !.phase = "done"]
                /\ result' = HandleError(fetched)
                /\ loadingStates' = loadingStates - 1
        /\ UNCHANGED clientVars
        /\ UNCHANGED <<viewVars, urlVars>>

\* makeRequestWithRetry: the retry delay has passed, the next attempt starts.
DelayElapses ==
    /\ request.phase = "delaying"
    /\ request' = [request EXCEPT !.phase = "fetching", !.attempt = @ + 1]
    /\ UNCHANGED <<fetches, result, loadingStates>>
    /\ UNCHANGED clientVars
    /\ UNCHANGED <<viewVars, urlVars>>

\* request(): parseResponse settles; a body that is not the JSON its content
\* type announces makes response.json() throw.
ParseSettles ==
    \E parsed \in BOOLEAN :
        /\ request.phase = "parsing"
        /\ request' = [request EXCEPT !.phase = "done"]
        /\ result' = IF parsed
                     THEN [state |-> "fulfilled", success |-> TRUE, error |-> ""]
                     ELSE HandleError(ParseError)
        /\ loadingStates' = loadingStates - 1
        /\ UNCHANGED fetches
        /\ UNCHANGED clientVars
        /\ UNCHANGED <<viewVars, urlVars>>

ApiNext ==
    \/ ApiCall
    \/ FetchSettles
    \/ DelayElapses
    \/ ParseSettles

\* ------------------------------------------------------- logs viewer
\* Service ids; the viewer shows the logs of Viewed (its service prop).
ServiceIds == {"svc-a", "svc-b"}

Viewed == "svc-a"

NoView ==
    [op |-> "none", entry |-> [service_id |-> "", line |-> 0],
     healthData |-> [service_id |-> "", is_healthy |-> FALSE]]

\* Array.prototype.slice(-n): the last n elements
SliceLast(seq, n) ==
    IF Len(seq) > n THEN SubSeq(seq, Len(seq) - n + 1, Len(seq)) ELSE seq

\* Mutant of PushLog: the cut keeps the oldest entries.
PushLog_KeepsOldest(prevLogs, logData) ==
    LET newLogs == Append(prevLogs, logData)
    IN IF Len(newLogs) > MaxLogs THEN SubSeq(newLogs, 1, MaxLogs) ELSE newLogs

\* the updater handleLogUpdate passes to setLogs
PushLog(prevLogs, logData) ==
    LET newLogs == Append(prevLogs, logData)
    IN IF Len(newLogs) > MaxLogs THEN SliceLast(newLogs, MaxLogs) ELSE newLogs

\* What the backend answers to getServiceLogs(service_id, lines): up to
\* lines entries of the service, or a failure.
LoadedLogs(n) == [i \in 1..n |-> [service_id |-> Viewed, line |-> 0]]

\* loadLogs() up to its await: the request is sent.
LoadLogs ==
    /\ logLoads < MaxLoads
    /\ logLoads' = logLoads + 1
    /\ viewLast' = [NoView EXCEPT !.op = "loadLogs"]
    /\ UNCHANGED <<logs, arrivals>>
    /\ UNCHANGED <<clientVars, apiVars, dashVars, urlVars>>

\* loadLogs() after its await: the result replaces the buffer, a failure
\* empties it.
LoadLogsSettles ==
    \E success \in BOOLEAN : \E n \in 0..LogsPerPage :
        /\ logLoads > 0
        /\ ~success => n = 0
        /\ logLoads' = logLoads - 1
        /\ logs' = LoadedLogs(n)
        /\ viewLast' = [NoView EXCEPT !.op = "logsLoaded"]
        /\ UNCHANGED arrivals
        /\ UNCHANGED <<clientVars, apiVars, dashVars, urlVars>>

\* handleLogUpdate(logData): an entry is streamed to the viewer.
HandleLogUpdate ==
    \E sid \in ServiceIds :
        LET logData == [service_id |-> sid, line |-> arrivals + 1]
        IN /\ arrivals < MaxArrivals
           /\ arrivals' = arrivals + 1
           /\ logs' = IF logData.service_id = Viewed
                      THEN PushLog(logs, logData) ELSE logs
           /\ viewLast' = [NoView EXCEPT !.op = "logUpdate", !.entry = logData]
           /\ UNCHANGED logLoads
           /\ UNCHANGED <<clientVars, apiVars, dashVars, urlVars>>

LogsNext ==
    \/ LoadLogs
    \/ LoadLogsSettles
    \/ HandleLogUpdate

\* ------------------------------------------------------- dashboard (App)
\* The health updates the backend pushes: { service_id, is_healthy, ... }.
HealthUpdates == [service_id : ServiceIds, is_healthy : BOOLEAN]

\* updatedStatusItem: the fields of the update and the time of its arrival
StatusItem(healthData) ==
    [service_id |-> healthData.service_id, is_healthy |-> healthData.is_healthy,
     last_check |-> "now"]

\* Array.prototype.findIndex: 0 here where JavaScript gives -1
FindIndex(prevStatus, service_id) ==
    IF \E i \in 1..Len(prevStatus) : prevStatus[i].service_id = service_id
    THEN CHOOSE i \in 1..Len(prevStatus) :
            /\ prevStatus[i].service_id = service_id
            /\ \A j \in 1..(i - 1) : prevStatus[j].service_id # service_id
    ELSE 0

\* Mutant of PatchStatus: the item is appended without looking for the id.
PatchStatus_AlwaysAppends(prevStatus, healthData) ==
    Append(prevStatus, StatusItem(healthData))

\* the updater handleRealtimeHealthUpdate passes to setServicesStatus
PatchStatus(prevStatus, healthData) ==
    LET existingIndex == FindIndex(prevStatus, healthData.service_id)
    IN IF existingIndex > 0
       THEN [prevStatus EXCEPT ![existingIndex] = StatusItem(healthData)]
       ELSE Append(prevStatus, StatusItem(healthData))

\* What the backend answers to getServices() and getServicesStatus().
ServiceList(b) == b.services

StatusList(b) ==
    [i \in 1..Len(b.services) |->
        [service_id |-> b.services[i], is_healthy |-> b.health[b.services[i]],
         last_check |-> "checked"]]

\* A loadDashboardData() call in flight: the backend reads its state when
\* the two requests are sent; the results are applied when Promise.all
\* settles.  latest: no load was issued after this one; patched: the service
\* ids of the health updates received since it was issued.
SentLoad(b) ==
    [latest |-> TRUE, patched |-> {},
     services |-> ServiceList(b), status |-> StatusList(b)]

\* a new load is issued: it is the most recently issued one
IssueLoad(loads, load) ==
    Append([i \in 1..Len(loads) |-> [loads[i] EXCEPT !.latest = FALSE]], load)

Remove(seq, i) == SubSeq(seq, 1, i - 1) \o SubSeq(seq, i + 1, Len(seq))

Range(seq) == {seq[i] : i \in 1..Len(seq)}

\* loadDashboardData() up to its await (initial load, refreshData)
LoadDashboardData ==
    /\ Len(dashLoads) < MaxLoads
    /\ dashLoads' = IssueLoad(dashLoads, SentLoad(backend))
    /\ viewLast' = [NoView EXCEPT !.op = "loadDashboardData"]
    /\ UNCHANGED <<services, servicesStatus, backend, creating, added>>
    /\ UNCHANGED <<clientVars, apiVars, logsVars, urlVars>>

\* loadDashboardData() after its await: each of the two results, if the
\* request succeeded, replaces its list.
LoadSettles ==
    \E i \in 1..Len(dashLoads) : \E servicesOk \in BOOLEAN : \E statusOk \in BOOLEAN :
        LET load == dashLoads[i]
        IN /\ services' = IF servicesOk THEN load.services ELSE services
           /\ servicesStatus' = IF statusOk THEN load.status ELSE servicesStatus
           /\ dashLoads' = Remove(dashLoads, i)
           /\ viewLast' = [NoView EXCEPT !.op = "loaded"]
           /\ UNCHANGED <<backend, creating, added>>
           /\ UNCHANGED <<clientVars, apiVars, logsVars, urlVars>>

\* The backend checks a service and pushes the result; the 'healthCheck'
\* event calls handleRealtimeHealthUpdate(healthData).  (The handler
\* returns at once if the component is unmounted; unmounting disconnects the
\* real-time client, so the component here is mounted.)
HandleRealtimeHealthUpdate ==
    \E healthData \in HealthUpdates :
        /\ healthData.service_id \in Range(backend.services)
        /\ backend' = [backend EXCEPT !.health[healthData.service_id] = healthData.is_healthy]
        /\ servicesStatus' = PatchStatus(servicesStatus, healthData)
        /\ dashLoads' = [i \in 1..Len(dashLoads) |->
                [dashLoads[i] EXCEPT !.patched = @ \cup {healthData.service_id}]]
        /\ viewLast' = [NoView EXCEPT !.op = "healthUpdate", !.healthData = healthData]
        /\ UNCHANGED <<services, creating, added>>
        /\ UNCHANGED <<clientVars, apiVars, logsVars, urlVars>>

\* handleAddService(serviceData) up to its await: createService is sent.
HandleAddService ==
    \E id \in ServiceIds :
        /\ creating = "none"
        /\ id \notin Range(backend.services)
        /\ creating' = id
        /\ viewLast' = [NoView EXCEPT !.op = "addService"]
        /\ UNCHANGED <<services, servicesStatus, backend, dashLoads, added>>
        /\ UNCHANGED <<clientVars, apiVars, logsVars, urlVars>>

\* handleAddService after its await: on success the service is appended to
\* the list and loadDashboardData() is called; on failure it throws.
CreateSettles ==
    \E success \in BOOLEAN :
        /\ creating # "none"
        /\ creating' = "none"
        /\ viewLast' = [NoView EXCEPT !.op = "created"]
        /\ IF success
           THEN /\ Len(dashLoads) < MaxLoads
                /\ backend' = [backend EXCEPT !.services = Append(@, creating)]
                /\ services' = Append(services, creating)
                /\ added' = added \cup {creating}
                /\ dashLoads' = IssueLoad(dashLoads, SentLoad(backend'))
           ELSE UNCHANGED <<backend, services, added, dashLoads>>
        /\ UNCHANGED servicesStatus
        /\ UNCHANGED <<clientVars, apiVars, logsVars, urlVars>>

DashboardNext ==
    \/ LoadDashboardData
    \/ LoadSettles
    \/ HandleRealtimeHealthUpdate
    \/ HandleAddService
    \/ CreateSettles

\* ------------------------------------------------------------ history
EmitsStable(s) ==
    \E i \in 1..Len(s.emitted) : s.emitted[i].event = "stableStatusChange"

NumEmits(s, event, data) ==
    Cardinality({i \in 1..Len(s.emitted) :
        s.emitted[i].event = event /\ s.emitted[i].data = data})

\* blip: "clean" from a close handled while the stable status is connected
\* until the next open or the expiry of the grace timer; "manual" once
\* disconnect() was called inside the episode, "emitted" once any other
\* handler emitted a stableStatusChange event inside it; "healed" after an
\* open that ended a clean episode.
BlipActive == blip \in {"clean", "manual", "emitted"}

BlipAfter(op, s) ==
    IF op = "open" THEN (IF blip = "clean" THEN "healed" ELSE "none")
    ELSE IF op = "graceTimer" THEN "none"
    ELSE IF BlipActive /\ op = "disconnect" THEN "manual"
    ELSE IF blip = "clean" /\ EmitsStable(s) THEN "emitted"
    ELSE IF ~BlipActive /\ op \in {"close", "fail"}
            /\ stableConnectionStatus = "connected" THEN "clean"
    ELSE blip

\* outage: "first" from the close of the current, established transport
\* handled while the stable status is connected (the grace timer it starts
\* is live); "restarted" once the close of a failed automatic attempt has
\* replaced that timer; "none" after an open, a disconnect(), an explicit
\* connect(), the close of any other transport, or the timer's expiry.
OutageAfter(op, s) ==
    IF op \in {"close", "fail"}
    THEN IF outage = "none"
         THEN (IF /\ s.outcome.established
                  /\ last'.t = ws
                  /\ stableConnectionStatus = "connected"
               THEN "first" ELSE "none")
         ELSE (IF s.outcome.origin = "auto" /\ ~s.outcome.established
               THEN "restarted" ELSE "none")
    ELSE IF op \in {"open", "graceTimer", "disconnect", "connect"} THEN "none"
    ELSE outage

IsStableEvent(e) == e.event = "stableStatusChange"

Min3(n) == IF n > 3 THEN 3 ELSE n

\* stableEmits: the payload of the last stableStatusChange event emitted so
\* far ("none" before the first), whether the first one carried 'connected'
\* and every later one a value other than its predecessor's, and how many
\* were emitted (0, 1, 2, "3 or more").
StableEmitsAfter(s) ==
    LET es == SelectSeq(s.emitted, IsStableEvent)
    IN IF es = <<>> THEN stableEmits
       ELSE [payload |-> es[Len(es)].data,
             count |-> Min3(stableEmits.count + Len(es)),
             alternated |->
                 /\ stableEmits.alternated
                 /\ IF stableEmits.payload = "none"
                    THEN es[1].data = "connected"
                    ELSE es[1].data # stableEmits.payload
                 /\ \A i \in 1..(Len(es) - 1) : es[i].data # es[i + 1].data]

\* the history counts 0, 1, "2 or more"
Min2(n) == IF n > 2 THEN 2 ELSE n

History(op, s) ==
    /\ blip' = BlipAfter(op, s)
    /\ discEmits' = Min2((IF op = "open" THEN 0 ELSE discEmits)
                         + NumEmits(s, "stableStatusChange", "disconnected"))
    /\ manualWindow' = (IF op = "disconnect" THEN TRUE
                        ELSE IF op = "connect" THEN FALSE ELSE manualWindow)
    /\ connectCalls' = connectCalls
                       + (IF op = "connect" /\ WEBSOCKET_ENABLED THEN 1 ELSE 0)
    /\ autoAttempts' = (IF op \in {"open", "connect"} THEN 0
                        ELSE IF op = "reconnectTimer" /\ NumCreated(s) > NumCreated(Cur)
                             THEN autoAttempts + 1
                        ELSE autoAttempts)
    /\ closeCalled' = closeCalled \cup {s.closeCalls[i].t : i \in 1..Len(s.closeCalls)}
    /\ outage' = OutageAfter(op, s)
    /\ stableEmits' = StableEmitsAfter(s)

NoArg ==
    [message |-> [kind |-> "none", text |-> ""], sendThrows |-> FALSE,
     frame |-> "", event |-> "", callback |-> ""]

\* after: the handler's result, computed once
Step(op, t, arg, s) ==
    \E after \in {s} :
    /\ Commit(after)
    /\ last' = [op |-> op, t |-> t, message |-> arg.message,
                sendThrows |-> arg.sendThrows, frame |-> arg.frame,
                event |-> arg.event, callback |-> arg.callback]
    /\ History(op, after)
    /\ UNCHANGED WEBSOCKET_ENABLED
    /\ UNCHANGED apiVars
    /\ UNCHANGED <<viewVars, urlVars>>

\* ------------------------------------------------------------------- Init
Init ==
    /\ WEBSOCKET_ENABLED \in BOOLEAN
    /\ ws = 0
    /\ sockets = [t \in Transports |-> [readyState |-> "NONE", established |-> FALSE]]
    /\ promises = [t \in Transports |-> NoPromise]
    /\ connectCalls = 0
    /\ reconnectAttempts = 0
    /\ isManualDisconnect = FALSE
    /\ pingInterval = 0
    /\ intervals = {}
    /\ disconnectionTimer = 0
    /\ timeouts = {}
    /\ reconnectTimers = 0
    /\ stableConnectionStatus = "disconnected"
    /\ listeners = [e \in KnownEvents |-> <<>>]
    /\ last = [op |-> "init", t |-> 0, message |-> NoArg.message,
               sendThrows |-> FALSE, frame |-> "", event |-> "", callback |-> ""]
    /\ invoked = <<>>
    /\ trace = <<>>
    /\ uncaught = FALSE
    /\ emitted = <<>>
    /\ sent = <<>>
    /\ closeCalls = <<>>
    /\ ret = "none"
    /\ outcome = NoOutcome
    /\ manualWindow = FALSE
    /\ blip = "none"
    /\ discEmits = 0
    /\ autoAttempts = 0
    /\ closeCalled = {}
    /\ outage = "none"
    /\ stableEmits = [payload |-> "none", alternated |-> TRUE, count |-> 0]
    /\ loadingStates = 0
    /\ request = [phase |-> "idle", method |-> "none", attempt |-> 0]
    /\ fetches = <<>>
    /\ result = NoResult
    /\ logs = <<>>
    /\ logLoads = 0
    /\ arrivals = 0
    /\ services = <<>>
    /\ servicesStatus = <<>>
    /\ backend = [services |-> <<"svc-a">>, health |-> [id \in ServiceIds |-> TRUE]]
    /\ dashLoads = <<>>
    /\ creating = "none"
    /\ added = {}
    /\ viewLast = NoView
    /\ centralConfig \in BOOLEAN
    /\ urlCall = NoUrlCall
    /\ callStack = [frames |-> <<>>, value |-> <<>>]
    /\ urlResult = NoUrlResult

\* ---------------------------------------------------------------- actions
\* Subscribers are explored together with short connection histories: the
\* transports created, counted twice, and the registrations held stay within
\* MaxLoad.
Load == 2 * NumCreated(Cur) + NumListeners(listeners)

\* a transport may be created
MayCreate ==
    /\ NumCreated(Cur) < MaxTransports
    /\ NumListeners(listeners) > 0 => Load + 2 <= MaxLoad

\* A caller calls connect().
Connect ==
    /\ WEBSOCKET_ENABLED =>
          /\ MayCreate
          /\ connectCalls < MaxConnectCalls
    /\ LET s == ConnectCall(Cur, "explicit")
       IN Step("connect", s.ws, NoArg, s)

\* A caller calls disconnect().
Disconnect ==
    /\ Step("disconnect", ws, NoArg, DisconnectCall(Cur))

\* A caller calls send(message); whether the platform's ws.send throws is an
\* input where send() reaches that call.
SendMessage ==
    \E message \in Messages :
    \E sendThrows \in (IF ws # 0 /\ sockets[ws].readyState = "OPEN"
                          /\ ~StringifyThrows(message)
                       THEN BOOLEAN ELSE {FALSE}) :
        Step("send", ws, [NoArg EXCEPT !.message = message, !.sendThrows = sendThrows],
             Send(Cur, message, sendThrows))

\* A subscriber calls on(event, callback).
On ==
    \E r \in Registrations :
      LET event == r[1]
          callback == r[2]
      IN
        /\ Load <= MaxLoad
        /\ event \in KnownEvents =>
              (Load < MaxLoad /\ NumListeners(listeners) < MaxListeners)
        /\ Step("on", ws, [NoArg EXCEPT !.event = event, !.callback = callback],
                OnCall(Cur, event, callback))

\* A subscriber calls off(event, callback).
Off ==
    \E r \in Registrations :
      LET event == r[1]
          callback == r[2]
      IN
        /\ Load <= MaxLoad
        /\ Step("off", ws, [NoArg EXCEPT !.event = event, !.callback = callback],
                OffCall(Cur, event, callback))

\* A frame arrives on transport t: message events fire on an OPEN socket only.
TransportMessage ==
    \E t \in Transports : \E text \in Frames :
        /\ sockets[t].readyState = "OPEN"
        /\ Load <= MaxLoad
        /\ Step("message", t, [NoArg EXCEPT !.frame = text], OnMessage(Cur, text))

\* The connection of transport t is established: readyState OPEN, open event.
TransportOpen ==
    \E t \in Transports :
        /\ sockets[t].readyState = "CONNECTING"
        /\ LET s0 == [Cur EXCEPT !.sockets[t] = [readyState |-> "OPEN", established |-> TRUE]]
           IN Step("open", t, NoArg, OnOpen(s0, t))

\* The connection of transport t failed (refused, dropped, or closed by
\* close() before it was established): one task sets readyState CLOSED and
\* fires error, then close.
TransportFail ==
    \E t \in Transports :
        /\ sockets[t].readyState \in {"CONNECTING", "OPEN", "CLOSING"}
        /\ LET s0 == [Cur EXCEPT !.sockets[t].readyState = "CLOSED"]
           IN Step("fail", t, NoArg, Closed(OnClose(OnError(s0, t), t), t))

\* The closing handshake of an established transport t completed (started
\* by the server or by close()): readyState CLOSED, close event only.
TransportClose ==
    \E t \in Transports :
        /\ sockets[t].established
        /\ sockets[t].readyState \in {"OPEN", "CLOSING"}
        /\ LET s0 == [Cur EXCEPT !.sockets[t].readyState = "CLOSED"]
           IN Step("close", t, NoArg, Closed(OnClose(s0, t), t))

\* A pending reconnection timer fires.
ReconnectTimerFire ==
    /\ reconnectTimers > 0
    /\ LET s0 == [Cur EXCEPT !.reconnectTimers = @ - 1]
           s == ReconnectCallback(s0)
       IN /\ (~isManualDisconnect /\ reconnectAttempts <= MaxReconnectAttempts
                /\ WEBSOCKET_ENABLED)
               => MayCreate
          /\ Step("reconnectTimer", s.ws, NoArg, s)

\* The heartbeat interval timer fires.
HeartbeatFire ==
    /\ intervals # {}
    /\ Step("heartbeat", ws, NoArg, HeartbeatCallback(Cur))

\* The grace-period timer expires.
GraceTimerFire ==
    \E h \in timeouts :
        LET s0 == [Cur EXCEPT !.timeouts = @ \ {h}]
        IN Step("graceTimer", ws, NoArg, GraceCallback(s0))

Next ==
    \/ Connect
    \/ Disconnect
    \/ SendMessage
    \/ TransportOpen
    \/ TransportFail
    \/ TransportClose
    \/ ReconnectTimerFire
    \/ HeartbeatFire
    \/ GraceTimerFire

\* The real-time client builds no REST URL.
ClientInit == Init /\ ~centralConfig

Spec == ClientInit /\ [][Next]_vars

\* The client with its subscribers and the frames it receives.  on(), off()
\* and ws.onmessage read and write none of the fields the other handlers
\* use, except this.listeners, which only emitEvent reads.
SubscriberNext ==
    \/ Next
    \/ On
    \/ Off
    \/ TransportMessage

SubscriberSpec == ClientInit /\ [][SubscriberNext]_vars

\* The REST client on its own.
ApiInit == Init /\ WEBSOCKET_ENABLED

ApiSpec == ApiInit /\ [][ApiNext]_vars

\* The view layer reads no feature flag.
ViewInit == Init /\ WEBSOCKET_ENABLED /\ ~centralConfig

\* The logs viewer on its own.
LogsSpec == ViewInit /\ [][LogsNext]_vars

\* The dashboard (App) and the backend it loads from.
DashboardSpec == ViewInit /\ [][DashboardNext]_vars

\* The central configuration's URL helpers on their own.
UrlInit == Init /\ WEBSOCKET_ENABLED /\ centralConfig

UrlSpec == UrlInit /\ [][UrlNext]_vars

\* Timers that are pending do fire.
FairSpec == Spec /\ WF_vars(GraceTimerFire)

\* A backend that accepts every connection and never drops one: a transport
\* leaves CONNECTING by opening, and closes only because the client called
\* close() on it.
ClosingFails ==
    \E t \in Transports :
        /\ sockets[t].readyState = "CLOSING"
        /\ ~sockets[t].established
        /\ LET s0 == [Cur EXCEPT !.sockets[t].readyState = "CLOSED"]
           IN Step("fail", t, NoArg, Closed(OnClose(OnError(s0, t), t), t))

ClosingCloses ==
    \E t \in Transports :
        /\ sockets[t].readyState = "CLOSING"
        /\ sockets[t].established
        /\ LET s0 == [Cur EXCEPT !.sockets[t].readyState = "CLOSED"]
           IN Step("close", t, NoArg, Closed(OnClose(s0, t), t))

\* Transports are named by their position among the WebSocket objects the
\* platform still holds: once the oldest one is CLOSED it is forgotten and
\* the others move up.
Forget ==
    /\ sockets[1].readyState = "CLOSED"
    /\ ws # 1
    /\ sockets' = [t \in Transports |->
                     IF t < MaxTransports THEN sockets[t + 1]
                     ELSE [readyState |-> "NONE", established |-> FALSE]]
    /\ promises' = [t \in Transports |->
                      IF t < MaxTransports THEN promises[t + 1] ELSE NoPromise]
    /\ ws' = IF ws = 0 THEN 0 ELSE ws - 1
    /\ UNCHANGED <<WEBSOCKET_ENABLED, connectCalls, reconnectAttempts, isManualDisconnect,
                   pingInterval, intervals, disconnectionTimer, timeouts,
                   reconnectTimers, stableConnectionStatus, listeners, last,
                   emitted, sent, closeCalls, ret, invoked, trace, uncaught, outcome,
                   manualWindow, blip, discEmits, autoAttempts, closeCalled, outage,
      stableEmits>>
    /\ UNCHANGED <<apiVars, viewVars, urlVars>>

AcceptingNext ==
    \/ Connect
    \/ Disconnect
    \/ TransportOpen
    \/ ClosingFails
    \/ ClosingCloses
    \/ ReconnectTimerFire
    \/ HeartbeatFire
    \/ GraceTimerFire
    \/ Forget

AcceptingInit == ClientInit /\ WEBSOCKET_ENABLED

\* Connections get established, closing handshakes complete, pending timers
\* fire and closed transports are forgotten.
AcceptingSpec ==
    /\ AcceptingInit
    /\ [][AcceptingNext]_vars
    /\ WF_vars(TransportOpen)
    /\ WF_vars(ClosingFails)
    /\ WF_vars(ClosingCloses)
    /\ WF_vars(ReconnectTimerFire)
    /\ WF_vars(GraceTimerFire)
    /\ WF_vars(Forget)

\* ------------------------------------------------------------------ claims
CoreVars ==
    <<ws, sockets, promises, reconnectAttempts, isManualDisconnect,
      pingInterval, intervals, disconnectionTimer, timeouts, reconnectTimers,
      stableConnectionStatus, listeners>>

SentPing == \E i \in 1..Len(sent) : sent[i].data = "ping"

EmittedStable ==
    \E i \in 1..Len(emitted) : emitted[i].event = "stableStatusChange"

EmittedDisconnected ==
    \E i \in 1..Len(emitted) :
        /\ emitted[i].event = "stableStatusChange"
        /\ emitted[i].data = "disconnected"

AllClosed == \A t \in Transports : sockets[t].readyState \in {"NONE", "CLOSED"}

\* C1 (as stated): whenever a close handled with stable status 'connected' is
\* followed by an open before the grace timer of that close expired, no
\* stableStatusChange event was emitted in between, the open emits none, and
\* no grace timer is left to fire later.
C1_NoFlicker ==
    [][last'.op = "open" =>
        /\ blip \notin {"emitted", "manual"}
        /\ blip = "clean" => (~EmittedStable' /\ timeouts' = {})]_vars

\* C1 (amended): the same, provided disconnect() was not called between the
\* close and the open.
C1_NoFlickerUnlessDisconnect ==
    [][last'.op = "open" =>
        /\ blip # "emitted"
        /\ blip = "clean" => (~EmittedStable' /\ timeouts' = {})]_vars

\* a close with stable status 'connected' was followed by an open in time
C1_Witness == blip = "healed" /\ last.op = "open"

\* C2: after a close handled with stable status 'connected', unless an open
\* follows, stableStatusChange('disconnected') is eventually emitted, and
\* between two opens it is never emitted twice.
C2_DisconnectedExactlyOnce ==
    /\ [](discEmits <= 1)
    /\ (blip = "clean") ~> (discEmits = 1 \/ last.op = "open")

\* the grace timer emitted 'disconnected' after every reconnection attempt failed
C2_Witness ==
    /\ last.op = "graceTimer"
    /\ EmittedDisconnected
    /\ discEmits = 1
    /\ AllClosed
    /\ reconnectAttempts = MaxReconnectAttempts
    /\ reconnectTimers = 0

\* C3: the stable status becomes 'disconnected' only in disconnect() or when
\* a grace timer expires, a grace timer never survives an open, and whenever
\* the current transport is open the stable status is 'connected'.
C3_StableStatusInvariant ==
    [][/\ (stableConnectionStatus = "connected"
             /\ stableConnectionStatus' = "disconnected")
            => last'.op \in {"graceTimer", "disconnect"}
       /\ last'.op = "open" => timeouts' = {}
       /\ (ws' # 0 /\ sockets'[ws'].readyState = "OPEN")
            => stableConnectionStatus' = "connected"]_vars

\* C4: between disconnect() and the next explicit connect() no handler sends
\* 'ping' and the reconnection timer creates no transport.
C4_QuietAfterDisconnect ==
    manualWindow =>
        /\ ~SentPing
        /\ ~(last.op = "reconnectTimer" /\ ret = "pending")

\* a reconnection timer scheduled before disconnect() fired after it
C4_Witness == manualWindow /\ last.op = "reconnectTimer" /\ reconnectTimers = 0

\* C5: reconnectAttempts stays within 0..N, and once every attempt has
\* failed the client has made at most N automatic attempts since the last
\* open or explicit connect().
C5_ReconnectionBounded ==
    /\ reconnectAttempts \in 0..MaxReconnectAttempts
    /\ AllClosed => autoAttempts <= MaxReconnectAttempts

\* C6: the promise of an explicit connect() settles only while pending, only
\* in a handler of the transport that call created, and is rejected only by
\* that transport's error.
C6_RejectedOnlyByOwnAttempt ==
    [][\A t \in Transports :
        (promises[t].origin = "explicit" /\ promises'[t] \notin {promises[t], NoPromise}) =>
            /\ promises[t].state = "pending"
            /\ last'.t = t
            /\ promises'[t].state = "rejected" => last'.op = "fail"]_vars

\* an explicit connect() was resolved and a later automatic attempt errored
C6_Witness ==
    /\ last.op = "fail"
    /\ outcome.origin = "auto"
    /\ ~outcome.established
    /\ \E t \in Transports :
        /\ t < last.t
        /\ promises[t].origin = "explicit"
        /\ promises[t].state = "resolved"

\* C7: the promise of an explicit connect() is resolved once its transport
\* has opened, and when its transport closes without ever having opened
\* (it errored) the promise is rejected, not left pending.
C7_ExplicitPromiseSettles ==
    /\ \A t \in Transports :
        (promises[t].origin = "explicit" /\ sockets[t].established)
            => promises[t].state = "resolved"
    /\ outcome.origin = "explicit" =>
        outcome.state = (IF outcome.established THEN "resolved" ELSE "rejected")

\* C8: the close or error of a transport that is no longer the current one
\* leaves the heartbeat timer, the grace timer and the reconnection timers
\* of the live current transport as they were.
C8_StaleEventsIgnored ==
    [][(/\ last'.op \in {"close", "fail"}
        /\ ws # 0
        /\ last'.t # ws
        /\ sockets[ws].readyState \in {"CONNECTING", "OPEN"})
       => /\ intervals' = intervals
          /\ timeouts' = timeouts
          /\ reconnectTimers' = reconnectTimers]_vars

\* C9: disconnect() leaves the stable status 'disconnected', emits the
\* change only if it was 'connected', closes the transport with code 1000,
\* leaves no heartbeat and no grace timer, and no grace timer is live until
\* the next explicit connect().
C9_DisconnectQuiesces ==
    [][/\ last'.op = "disconnect" =>
            /\ stableConnectionStatus' = "disconnected"
            /\ EmittedDisconnected' <=> stableConnectionStatus = "connected"
            /\ ws # 0 => closeCalls' = <<[t |-> ws, code |-> "1000"]>>
            /\ intervals' = {}
            /\ timeouts' = {}
       /\ manualWindow' => timeouts' = {}]_vars

\* C10 (as stated): send() returns false and sends nothing unless the
\* transport is open; on an open transport it sends the text and returns
\* true, or returns false when the transport send throws; it changes no
\* client state.
C10_SendContract ==
    [][last'.op = "send" =>
        /\ UNCHANGED CoreVars
        /\ ret' \in {"true", "false"}
        /\ IF ws # 0 /\ sockets[ws].readyState = "OPEN"
           THEN \/ /\ ret' = "true"
                   /\ sent' = <<[t |-> ws, data |-> MessageStr(last'.message)]>>
                \/ /\ ret' = "false"
                   /\ sent' = <<>>
                   /\ last'.sendThrows
           ELSE ret' = "false" /\ sent' = <<>>]_vars

\* C10 (amended): on an open transport send() also returns false, sending
\* nothing, when serialising the payload throws.
C10_SendContractAmended ==
    [][last'.op = "send" =>
        /\ UNCHANGED CoreVars
        /\ ret' \in {"true", "false"}
        /\ IF ws # 0 /\ sockets[ws].readyState = "OPEN"
           THEN \/ /\ ret' = "true"
                   /\ ~last'.sendThrows /\ ~StringifyThrows(last'.message)
                   /\ sent' = <<[t |-> ws, data |-> MessageStr(last'.message)]>>
                \/ /\ ret' = "false"
                   /\ sent' = <<>>
                   /\ last'.sendThrows \/ StringifyThrows(last'.message)
           ELSE ret' = "false" /\ sent' = <<>>]_vars

\* send() of an unserialisable payload on an open transport returned false
C10_Witness ==
    /\ last.op = "send"
    /\ ws # 0 /\ sockets[ws].readyState = "OPEN"
    /\ StringifyThrows(last.message)
    /\ ret = "false"

\* C11: a frame that parses with the health tag emits a message event and
\* then the health event (the code names it 'healthCheck') with the frame's
\* data field; a frame that parses with any other tag emits only the message
\* event; a frame that does not parse emits only one message event wrapping
\* the raw text; health subscribers are called for health frames only.
C11_MessageClassification ==
    [][last'.op = "message" =>
        LET text == last'.frame
            data == JsonParse(text)
        IN /\ emitted' =
                (IF ~data.ok
                 THEN <<[event |-> "message", data |-> Echo(text)]>>
                 ELSE IF data.type = "health_check"
                 THEN <<[event |-> "message", data |-> text],
                        [event |-> "healthCheck", data |-> data.data]>>
                 ELSE <<[event |-> "message", data |-> text]>>)
           /\ \A i \in 1..Len(invoked') :
                invoked'[i].event = "healthCheck"
                    => (data.ok /\ data.type = "health_check")]_vars

\* C12: while the current transport is open a heartbeat timer is active and
\* its firing sends 'ping' on that transport; after a close of the current
\* transport or disconnect() no heartbeat timer is active; 'ping' is sent
\* only on an open transport.
C12_Heartbeat ==
    [][/\ (ws' # 0 /\ sockets'[ws'].readyState = "OPEN")
            => (pingInterval' # 0 /\ pingInterval' \in intervals')
       /\ (last'.op = "heartbeat" /\ ws # 0 /\ sockets[ws].readyState = "OPEN")
            => sent' = <<[t |-> ws, data |-> "ping"]>>
       /\ (last'.op = "disconnect" \/ (last'.op \in {"close", "fail"} /\ last'.t = ws))
            => intervals' = {}
       /\ \A i \in 1..Len(sent') :
            sent'[i].data = "ping" => sockets[sent'[i].t].readyState = "OPEN"]_vars

\* C13: at most one transport is connecting or open, and when a transport is
\* created close() has been called on every earlier one.
C13_SingleConnection ==
    [][/\ Cardinality({t \in Transports :
                sockets'[t].readyState \in {"CONNECTING", "OPEN"}}) <= 1
       /\ \A t \in Transports :
            (sockets[t].readyState = "NONE" /\ sockets'[t].readyState # "NONE")
                => \A u \in 1..(t - 1) : u \in closeCalled']_vars

\* connect() was called while the transport the client held was open
C13_Witness ==
    /\ last.op = "connect"
    /\ ws > 1
    /\ sockets[ws].readyState = "CONNECTING"
    /\ closeCalls = <<[t |-> ws - 1, code |-> "none"]>>
    /\ sockets[ws - 1].readyState = "CLOSING"
    /\ sockets[ws - 1].established

\* C14: with stable status 'connected', when the transport closes and never
\* reopens, the grace timer that announces 'disconnected' is the one that
\* close started (it fires one grace period after that close), also when
\* reconnection attempts fail in between.
C14_GraceFromFirstClose ==
    [][(last'.op = "graceTimer" /\ outage # "none" /\ EmittedDisconnected')
        => outage = "first"]_vars

\* C15: with the feature disabled connect() resolves, creates no transport,
\* starts no timer, emits nothing and changes no field of the client.
C15_DisabledConnect ==
    [][(last'.op = "connect" /\ ~WEBSOCKET_ENABLED) =>
        /\ ret' = "resolved"
        /\ UNCHANGED CoreVars
        /\ emitted' = <<>> /\ sent' = <<>> /\ closeCalls' = <<>>]_vars

\* connect() was called, after disconnect(), with the feature disabled
C15_Witness ==
    /\ ~WEBSOCKET_ENABLED
    /\ last.op = "connect"
    /\ isManualDisconnect

\* C16: on() and off() never throw; with a name outside the known set they
\* leave the listener table unchanged and no callback is ever called for
\* such a name; with a known name on() appends the callback and off()
\* removes one registration of it.
C16_UnknownEventNames ==
    [][/\ last'.op \in {"on", "off"} =>
            LET event == last'.event
                callback == last'.callback
            IN /\ ret' # "throws"
               /\ event \notin KnownEvents => listeners' = listeners
               /\ (event \in KnownEvents /\ last'.op = "on") =>
                    listeners' = [listeners EXCEPT ![event] = Append(@, callback)]
               /\ (event \in KnownEvents /\ last'.op = "off") =>
                    LET old == listeners[event]
                        held == {i \in 1..Len(old) : old[i] = callback}
                    IN IF held = {}
                       THEN listeners' = listeners
                       ELSE \E i \in held :
                              listeners' = [listeners EXCEPT ![event] = Splice1(old, i)]
       /\ \A i \in 1..Len(invoked') : invoked'[i].event \in KnownEvents]_vars

IsMessageEvent(e) == e.event = "message"

IsErrorCall(c) == c.event = "error"

\* what the subscribers are owed for a sequence of events: for each event in
\* turn, its listeners in registration order
RECURSIVE Deliveries(_, _)
Deliveries(table, events) ==
    IF events = <<>> THEN <<>>
    ELSE LET e == Head(events)
         IN Calls(IF e.event \in KnownEvents THEN table[e.event] ELSE <<>>,
                  e.event, e.data)
            \o Deliveries(table, Tail(events))

\* C17: every inbound frame emits exactly one message event (the handler
\* runs once per frame, in arrival order), and the listeners of each emitted
\* event are called in registration order before the next event is emitted.
C17_Ordering ==
    [][/\ last'.op = "message" => Len(SelectSeq(emitted', IsMessageEvent)) = 1
       /\ invoked' = Deliveries(listeners, emitted')]_vars

\* C18: a transport error is emitted as an 'error' event, every listener of
\* it is called in order although one throws, nothing leaves the handler,
\* and the close handler then runs and schedules the reconnection as it
\* would for any close.
C18_ErrorContained ==
    [][last'.op = "fail" =>
        /\ ~uncaught'
        /\ emitted'[1] = [event |-> "error", data |-> ToString(last'.t)]
        /\ SelectSeq(invoked', IsErrorCall)
             = Calls(listeners["error"], "error", ToString(last'.t))
        /\ \E i \in 2..Len(emitted') : emitted'[i].event = "close"
        /\ reconnectTimers' = reconnectTimers
             + (IF ~isManualDisconnect /\ reconnectAttempts < MaxReconnectAttempts
                THEN 1 ELSE 0)]_vars

\* a transport errored with two error listeners, the first of which throws,
\* and a reconnection was scheduled
C18_Witness ==
    /\ last.op = "fail"
    /\ listeners["error"] = <<"h1", "h2">>
    /\ Len(invoked) = 2
    /\ invoked[2].callback = "h2"
    /\ reconnectTimers = 1

\* C19: get / post / delete never return a rejected promise, and whenever
\* the call failed (URL building, serialisation, network, timeout, HTTP error
\* status, parsing) the promise fulfils with success false and an error
\* message.
C19_NeverRejects ==
    /\ result.state # "rejected"
    /\ request.phase = "done" =>
        /\ result.state = "fulfilled"
        /\ result.success <=> (fetches # <<>> /\ fetches[Len(fetches)].ok
                                 /\ result.error = "")
        /\ ~result.success => result.error # ""

Is4xx(fetched) == ~fetched.ok /\ fetched.status \in 400..499

\* C20: a call makes at most retryAttempts fetch attempts; an attempt is
\* followed by another only if it failed with something other than a 4xx
\* status or a timeout; the call ends when an attempt succeeds, fails with a
\* 4xx status or a timeout, or was the last one allowed; the error reported
\* is that of the last attempt.
C20_RetryPolicy ==
    /\ Len(fetches) <= RetryAttempts
    /\ \A i \in 1..(Len(fetches) - 1) :
        /\ ~fetches[i].ok
        /\ ~Is4xx(fetches[i])
        /\ fetches[i].name # "AbortError"
    /\ (request.phase = "done" /\ fetches # <<>>) =>
        LET final == fetches[Len(fetches)]
        IN /\ \/ final.ok
              \/ Is4xx(final)
              \/ final.name = "AbortError"
              \/ Len(fetches) = RetryAttempts
           /\ ~final.ok => result = HandleError(final)

\* C21: the buffer never holds more than the cap; a streamed entry of the
\* viewed service is appended, and the buffer is then the most recent
\* entries in arrival order (appending to a full buffer drops exactly the
\* oldest); an entry of another service leaves the buffer unchanged.
C21_LogRingBuffer ==
    [][/\ Len(logs') <= MaxLogs
       /\ viewLast'.op = "logUpdate" =>
            LET entry == viewLast'.entry
                all == Append(logs, entry)
            IN IF entry.service_id = Viewed
               THEN /\ logs'[Len(logs')] = entry
                    /\ Len(logs') = (IF Len(logs) < MaxLogs THEN Len(logs) + 1 ELSE MaxLogs)
                    /\ \A i \in 1..Len(logs') :
                         logs'[i] = all[Len(all) - Len(logs') + i]
                    /\ Len(logs) = MaxLogs => logs' = Append(Tail(logs), entry)
               ELSE logs' = logs]_vars

\* an entry was pushed to a full buffer of streamed entries
C21_Witness ==
    /\ viewLast.op = "logUpdate"
    /\ viewLast.entry.service_id = Viewed
    /\ Len(logs) = MaxLogs
    /\ arrivals = MaxLogs + 1
    /\ \A i \in 1..MaxLogs : logs[i].line = i + 1

UniqueIds(status) ==
    \A i, j \in 1..Len(status) :
        status[i].service_id = status[j].service_id => i = j

\* C22: the status list has at most one entry per service id; a health
\* update leaves the entry of its id holding the update's fields, in the
\* entry's old position or at the end if the id is new, and leaves every
\* other entry as and where it was.
C22_HealthPatch ==
    [][/\ UniqueIds(servicesStatus')
       /\ viewLast'.op = "healthUpdate" =>
            LET healthData == viewLast'.healthData
                old == servicesStatus
                new == servicesStatus'
                here == {i \in 1..Len(old) : old[i].service_id = healthData.service_id}
            IN /\ Len(new) = Len(old) + (IF here = {} THEN 1 ELSE 0)
               /\ \A i \in 1..Len(old) : i \notin here => new[i] = old[i]
               /\ \A i \in (1..Len(new)) \ {j \in 1..Len(old) : j \notin here} :
                    /\ new[i].service_id = healthData.service_id
                    /\ new[i].is_healthy = healthData.is_healthy
                    /\ new[i].last_check = "now"]_vars

\* a loaded list of two services had the entry of its first service patched
C22_Witness ==
    /\ viewLast.op = "healthUpdate"
    /\ Len(servicesStatus) = 2
    /\ servicesStatus[1].service_id = viewLast.healthData.service_id
    /\ servicesStatus[1].last_check = "now"
    /\ servicesStatus[2].last_check = "checked"
    /\ ~servicesStatus[1].is_healthy

\* the health shown for a service id ("none": the list has no entry of it)
Shown(status, id) ==
    IF \E i \in 1..Len(status) : status[i].service_id = id
    THEN LET i == CHOOSE i \in 1..Len(status) : status[i].service_id = id
         IN IF status[i].is_healthy THEN "healthy" ELSE "unhealthy"
    ELSE "none"

\* C23: whatever the order in which loads complete, what is displayed once
\* all calls have completed is the result of the most recently issued load,
\* patched by the health updates received after it: a load that completes
\* after the most recently issued one has completed changes nothing, the
\* most recently issued load does not overwrite a health update received
\* after it was issued, and a service that handleAddService added is listed.
C23_OutOfOrderTolerance ==
    [][viewLast'.op = "loaded" =>
        \E i \in 1..Len(dashLoads) :
            LET load == dashLoads[i]
            IN /\ dashLoads' = Remove(dashLoads, i)
               /\ (\A j \in 1..Len(dashLoads) : ~dashLoads[j].latest)
                    => UNCHANGED <<services, servicesStatus>>
               /\ load.latest =>
                    \A id \in load.patched :
                        Shown(servicesStatus', id) = Shown(servicesStatus, id)
               /\ (dashLoads' = <<>> /\ creating = "none")
                    => added \subseteq Range(services')]_vars

OpenSteps == {"clearDisconnectionTimer", "stableStatusChange", "open", "startHeartbeat"}

IsOpenStep(x) == x \in OpenSteps

\* C24: the open handler cancels the pending grace timer, then emits
\* stableStatusChange('connected') once if the stable status was
\* 'disconnected' and not at all otherwise, then emits 'open', then starts
\* the heartbeat timer; on return no grace timer is pending, the heartbeat
\* timer is live and reconnectAttempts is 0.
C24_OpenSequence ==
    [][last'.op = "open" =>
        /\ SelectSeq(trace', IsOpenStep)
             = (IF timeouts # {} THEN <<"clearDisconnectionTimer">> ELSE <<>>)
               \o (IF stableConnectionStatus = "disconnected"
                   THEN <<"stableStatusChange">> ELSE <<>>)
               \o <<"open", "startHeartbeat">>
        /\ \A i \in 1..Len(emitted') :
             IsStableEvent(emitted'[i]) => emitted'[i].data = "connected"
        /\ timeouts' = {}
        /\ pingInterval' # 0 /\ intervals' = {pingInterval'}
        /\ reconnectAttempts' = 0]_vars

\* a transport opened while a grace timer was pending and the stable status
\* was 'disconnected'
C24_Witness ==
    /\ last.op = "open"
    /\ trace = <<"clearDisconnectionTimer", "stableStatusChange", "open", "startHeartbeat">>
    /\ reconnectAttempts = 0

\* C25: every inbound frame, whatever its content, emits exactly one
\* 'message' event.
C25_OneMessagePerFrame ==
    [][last'.op = "message" =>
        Cardinality({i \in 1..Len(emitted') : emitted'[i].event = "message"}) = 1]_vars

\* one open transport, stable status 'connected', a live heartbeat timer and
\* no pending reconnection timer
Stabilised ==
    /\ ws # 0
    /\ \A t \in Transports : sockets[t].readyState \in {"CONNECTING", "OPEN"} <=> t = ws
    /\ sockets[ws].readyState = "OPEN"
    /\ stableConnectionStatus = "connected"
    /\ pingInterval # 0 /\ pingInterval \in intervals
    /\ reconnectTimers = 0

\* C26: against a backend that accepts every connection and drops none,
\* when the caller's calls end with connect() the client eventually is, and
\* from then on stays, stabilised.
C26_Stabilisation ==
    <>[](connectCalls > 0 /\ ~manualWindow) => <>[]Stabilised

\* C27: single timer per purpose: in every reachable state at most one
\* heartbeat timer, at most one grace-period timer and at most one
\* reconnection timer are pending.
C27_SingleTimerPerPurpose ==
    /\ Cardinality(intervals) <= 1
    /\ Cardinality(timeouts) <= 1
    /\ reconnectTimers <= 1

\* C28: stableStatusChange events strictly alternate: the first one ever
\* emitted carries 'connected', no two consecutive ones carry the same
\* value, and in every reachable state getStableConnectionStatus() equals
\* the payload of the last emitted stableStatusChange event ('disconnected'
\* if none was emitted).
C28_StableEventsAlternate ==
    /\ stableEmits.alternated
    /\ GetStableConnectionStatus =
          (IF stableEmits.payload = "none" THEN "disconnected"
           ELSE stableEmits.payload)

\* the status went to 'connected', to 'disconnected' and to 'connected'
\* again: the last handler emitted the third stableStatusChange event
C28_Witness ==
    /\ stableEmits = [payload |-> "connected", alternated |-> TRUE, count |-> 3]
    /\ last.op = "open"
    /\ \E i \in 1..Len(emitted) : IsStableEvent(emitted[i])

NumEmitted(events, event) ==
    Cardinality({i \in 1..Len(events) : events[i].event = event})

NumInvoked(calls, event, callback) ==
    Cardinality({i \in 1..Len(calls) :
        calls[i].event = event /\ calls[i].callback = callback})

Occurrences(seq, x) == Cardinality({i \in 1..Len(seq) : seq[i] = x})

\* C29: every handler that is registered for an event at the moment the
\* event is emitted is invoked exactly once for that emission, also when a
\* handler calls off() while the emission is in progress.  (A handler run
\* that emits the event once emits it with the listeners the client had
\* when the handler started: only the listeners of the event being emitted
\* unsubscribe.)
C29_EveryListenerInvoked ==
    [][\A event \in KnownEvents :
         NumEmitted(emitted', event) = 1 =>
            \A callback \in Callbacks :
                NumInvoked(invoked', event, callback)
                  = Occurrences(listeners[event], callback)]_vars

\* the documented result of a call: base URL + base path + endpoint, plus
\* the query string when there are parameters
ExpectedUrl(call) ==
    IF call.params = <<>> THEN ApiBase \o call.endpoint
    ELSE ApiBase \o call.endpoint \o <<"?">> \o QueryString(call.params)

SameCall(f, g) ==
    f.fn = g.fn /\ f.endpoint = g.endpoint /\ f.params = g.params

\* C30: URL building terminates: buildUrl(endpoint, params) and
\* getApiUrl(endpoint) return, with base URL + base path + endpoint (plus
\* the query string when params is non-empty), and the two functions do not
\* call each other without bound: no call is in progress inside the same
\* call with the same arguments.
C30_UrlBuildingTerminates ==
    /\ \A i, j \in 1..Len(callStack.frames) :
          i < j => ~SameCall(callStack.frames[i], callStack.frames[j])
    /\ urlResult.state \in {"returned", "thrown"} =>
          urlResult = [state |-> "returned", value |-> ExpectedUrl(urlCall)]

====
